---- MODULE Spec2Model ----
(***************************************************************************)
(* Authentication state synchronisation and route authorisation of         *)
(* travel-permit-pro: the AuthProvider (session store, role resolver and    *)
(* sign-in / sign-up / sign-out facade, src/unnamed/part_001) and the       *)
(* ProtectedRoute guard (src/src/components/ProtectedRoute.tsx).            *)
(***************************************************************************)
EXTENDS Naturals, Sequences, FiniteSets, TLC

\* Number of session-change notifications the backend emits in one run.
MaxEvents == 2

(***************************************************************************)
(* Values                                                                  *)
(***************************************************************************)

\* User identities known to the backend, and the role column of their
\* profiles row (data.role of the profiles query).
Users == {"alice", "bob"}

ProfileRole(uid) == IF uid = "alice" THEN "admin" ELSE "user"

\* Session | null: a session carries its user.
NullSession == [present |-> FALSE, user |-> "null"]

SessionOf(uid) == [present |-> TRUE, user |-> uid]

Sessions == {NullSession} \cup {SessionOf(u) : u \in Users}

\* currentSession?.user ?? null
UserOf(s) == IF s.present THEN s.user ELSE "null"

\* requiredRole?: 'admin' | 'user' ("none" is the omitted prop)
RequiredRoles == {"admin", "user", "none"}

\* The argument of toast({title, description, variant}).
NoToast == [title |-> "none", description |-> <<>>, variant |-> "none"]

Toast(t, d, v) == [title |-> t, description |-> d, variant |-> v]

\* No role lookup (a field of the step record below).
NoLookup == [seq |-> 0, uid |-> "null", src |-> "none"]

\* What one step handed to the notification and navigation sinks, and which
\* external outcome it saw.
Emit(by, outcome, lookup, toast, nav) ==
  [by |-> by, outcome |-> outcome, lookup |-> lookup, toast |-> toast, nav |-> nav]

VARIABLES
  session,        \* useState<Session | null>
  user,           \* useState<User | null>
  userRole,       \* useState<'admin' | 'user' | null>
  loading,        \* useState(true)
  initPc,         \* position of the initial getSession().then(...) callback
  lookups,        \* role lookups in flight (fetchUserRole calls not yet settled)
  events,         \* session-change notifications emitted and not yet handled
  nextSeq,        \* number of notifications emitted so far
  backendSession, \* the session the external auth service currently holds
  call,           \* the facade call (signIn, signUp, signOut) in progress or last returned
  mounted,        \* whether a ProtectedRoute is mounted
  requiredRole,   \* its requiredRole prop
  effectPending,  \* its useEffect is scheduled again (a dependency changed)
  emitted,        \* what the last step of the store or of the guard emitted
  providerMounted, \* whether the AuthProvider is mounted (its effect not yet cleaned up)
  listeners       \* number of callbacks registered with onAuthStateChange

vars == <<session, user, userRole, loading, initPc, lookups, events, nextSeq,
          backendSession, call, mounted, requiredRole, effectPending, emitted,
          providerMounted, listeners>>

storeVars == <<session, user, userRole, loading>>

routeVars == <<mounted, requiredRole>>

providerVars == <<providerMounted, listeners>>

(***************************************************************************)
(* ProtectedRoute                                                          *)
(***************************************************************************)

\* GuardRender without the `!user` test of its second branch.
GuardRenderNoUserCheck(ld, usr, role, req) ==
  IF ld THEN "spinner"
  ELSE IF req # "none" /\ role # req THEN "null"
  ELSE "children"

\* The component's return value: the spinner, null, or the children.
GuardRender(ld, usr, role, req) ==
  IF ld THEN "spinner"
  ELSE IF usr = "null" \/ (req # "none" /\ role # req) THEN "null"
  ELSE "children"

\* GuardEffect with the two redirects of the role branch exchanged.
GuardEffectSwapped(ld, usr, role, req) ==
  IF ld THEN [toast |-> NoToast, nav |-> "none"]
  ELSE IF usr = "null"
    THEN [toast |-> Toast("Authentication required",
                          <<"Please sign in to access this page">>, "default"),
          nav |-> "/auth"]
  ELSE IF req # "none" /\ role # req
    THEN IF req = "admin"
      THEN [toast |-> NoToast, nav |-> "/admin"]
      ELSE [toast |-> Toast("Access restricted",
                            <<"You need administrator privileges to access this page">>,
                            "destructive"),
            nav |-> "/dashboard"]
  ELSE [toast |-> NoToast, nav |-> "none"]

\* The body of the component's useEffect: the toast and the navigation.
GuardEffect(ld, usr, role, req) ==
  IF ld THEN [toast |-> NoToast, nav |-> "none"]
  ELSE IF usr = "null"
    THEN [toast |-> Toast("Authentication required",
                          <<"Please sign in to access this page">>, "default"),
          nav |-> "/auth"]
  ELSE IF req # "none" /\ role # req
    THEN IF req = "admin"
      THEN [toast |-> Toast("Access restricted",
                            <<"You need administrator privileges to access this page">>,
                            "destructive"),
            nav |-> "/dashboard"]
      ELSE [toast |-> NoToast, nav |-> "/admin"]
  ELSE [toast |-> NoToast, nav |-> "none"]

\* What the mounted guard currently shows.
rendered ==
  IF mounted THEN GuardRender(loading, user, userRole, requiredRole) ELSE "unmounted"

\* A commit of the store that changed a dependency of the mounted guard's
\* effect schedules the effect.
Commit ==
  effectPending' = (mounted /\ <<user', userRole', loading'>> # <<user, userRole, loading>>)

\* The scheduled effect runs before anything else is processed.
RunGuardEffect ==
  /\ mounted /\ effectPending
  /\ LET e == GuardEffect(loading, user, userRole, requiredRole)
     IN emitted' = Emit("ProtectedRoute", "none", NoLookup, e.toast, e.nav)
  /\ effectPending' = FALSE
  /\ UNCHANGED <<providerVars, storeVars, initPc, lookups, events, nextSeq, backendSession,
                 call, routeVars>>

\* A protected route is entered: the guard mounts with its requiredRole,
\* renders, and its effect runs for the first time.
MountRoute(req) ==
  /\ providerMounted
  /\ ~effectPending
  /\ ~(mounted /\ requiredRole = req)
  /\ mounted' = TRUE
  /\ requiredRole' = req
  /\ LET e == GuardEffect(loading, user, userRole, req)
     IN emitted' = Emit("ProtectedRoute", "none", NoLookup, e.toast, e.nav)
  /\ UNCHANGED <<providerVars, storeVars, initPc, lookups, events, nextSeq, backendSession, call,
                 effectPending>>

\* The protected route is left.
UnmountRoute ==
  /\ ~effectPending
  /\ mounted
  /\ mounted' = FALSE
  /\ requiredRole' = "none"
  /\ effectPending' = FALSE
  /\ UNCHANGED <<providerVars, storeVars, initPc, lookups, events, nextSeq, backendSession, call, emitted>>

(***************************************************************************)
(* Session store and role resolver                                         *)
(***************************************************************************)

\* The backend emits a notification (event, session): it is dispatched to
\* the callback registered at that moment, and to nobody when none is.
Notify(s) ==
  /\ nextSeq < MaxEvents
  /\ nextSeq' = nextSeq + 1
  /\ events' = IF listeners > 0
                 THEN Append(events, [seq |-> nextSeq + 1, session |-> s])
                 ELSE events

\* Teardown whose cleanup does not unsubscribe.
TeardownLeakingListener ==
  /\ providerMounted
  /\ providerMounted' = FALSE
  /\ listeners' = listeners
  /\ events' = events
  /\ mounted' = FALSE
  /\ requiredRole' = "none"
  /\ effectPending' = FALSE
  /\ UNCHANGED <<storeVars, initPc, lookups, nextSeq, backendSession, call, emitted>>

\* The AuthProvider unmounts, with the guard below it: the cleanup of its
\* effect unsubscribes the callback, so the notifications not yet delivered
\* to it never are.  Nothing else is cancelled: the initial fetch, the role
\* lookups and the facade call in flight run on.
Teardown ==
  /\ providerMounted
  /\ providerMounted' = FALSE
  /\ listeners' = listeners - 1
  /\ events' = <<>>
  /\ mounted' = FALSE
  /\ requiredRole' = "none"
  /\ effectPending' = FALSE
  /\ UNCHANGED <<storeVars, initPc, lookups, nextSeq, backendSession, call, emitted>>

\* FetchedRole that does not test `error`: it writes data.role, the role of
\* the row, whenever the query did not throw.
FetchedRoleIgnoringError(l, outcome) ==
  IF outcome = "throw" THEN "null" ELSE ProfileRole(l.uid)

\* FetchedRole behind a staleness guard: the result of a lookup for another
\* identity than the current user's is dropped.
FetchedRoleGuarded(l, outcome) ==
  IF l.uid # user THEN userRole
  ELSE IF outcome = "ok" THEN ProfileRole(l.uid) ELSE "null"

\* The role fetchUserRole writes for an outcome of the profiles query:
\* the returned role, or null for a returned error and for a thrown one.
FetchedRole(l, outcome) ==
  IF outcome = "ok" THEN ProfileRole(l.uid) ELSE "null"

\* FetchRejects without the try/catch: a throw of the query escapes.
FetchRejectsUncaught(outcome) == outcome = "throw"

\* Whether fetchUserRole's promise rejects: the try/catch contains a throw.
FetchRejects(outcome) == FALSE

\* The onAuthStateChange callback.
HandleAuthEvent ==
  /\ ~effectPending
  /\ listeners > 0
  /\ events # <<>>
  /\ LET ev == Head(events)
         currentSession == ev.session
     IN /\ session' = currentSession
        /\ user' = UserOf(currentSession)
        /\ IF UserOf(currentSession) # "null"
             THEN /\ lookups' = lookups \cup
                       {[seq |-> ev.seq, uid |-> UserOf(currentSession), src |-> "listener"]}
                  /\ userRole' = userRole
             ELSE /\ userRole' = "null"
                  /\ lookups' = lookups
        /\ emitted' = Emit("onAuthStateChange", "none", NoLookup, NoToast, "none")
  /\ events' = Tail(events)
  /\ loading' = loading
  /\ UNCHANGED <<providerVars, initPc, nextSeq, backendSession, call, routeVars>>
  /\ Commit

\* The getSession().then(...) callback of the mount effect, up to its await.
InitialSession ==
  /\ ~effectPending
  /\ initPc = "pending"
  /\ session' = backendSession
  /\ user' = UserOf(backendSession)
  /\ IF UserOf(backendSession) # "null"
       THEN /\ lookups' = lookups \cup
                 {[seq |-> 0, uid |-> UserOf(backendSession), src |-> "initial"]}
            /\ initPc' = "awaitRole"
            /\ loading' = loading
       ELSE /\ lookups' = lookups
            /\ initPc' = "done"
            /\ loading' = FALSE
  /\ userRole' = userRole
  /\ emitted' = Emit("getSession", "none", NoLookup, NoToast, "none")
  /\ UNCHANGED <<providerVars, events, nextSeq, backendSession, call, routeVars>>
  /\ Commit

\* fetchUserRole settles for one lookup in flight; the initial fetch, when
\* it awaited this lookup, resumes and clears the loading flag.
FetchUserRole(l, outcome) ==
  /\ ~effectPending
  /\ l \in lookups
  /\ lookups' = lookups \ {l}
  /\ userRole' = FetchedRole(l, outcome)
  /\ IF l.src = "initial"
       THEN IF FetchRejects(outcome)
              THEN initPc' = "rejected" /\ loading' = loading
              ELSE initPc' = "done" /\ loading' = FALSE
       ELSE initPc' = initPc /\ loading' = loading
  /\ emitted' = Emit("fetchUserRole", outcome, l, NoToast, "none")
  /\ UNCHANGED <<providerVars, session, user, events, nextSeq, backendSession, call, routeVars>>
  /\ Commit

\* The backend changes the session on its own (expiry, token refresh,
\* another tab) and notifies the listener.
BackendChange(s) ==
  /\ ~effectPending
  /\ backendSession' = s
  /\ Notify(s)
  /\ UNCHANGED <<providerVars, storeVars, initPc, lookups, call, routeVars, effectPending, emitted>>

(***************************************************************************)
(* Auth facade: signIn, signUp, signOut                                    *)
(***************************************************************************)

\* error.message of the failures the credential service reports, as words.
ErrorMessages ==
  { <<"Invalid", "login", "credentials">>,
    <<"AuthApiError:", "Invalid", "login", "credentials">>,
    <<"invalid", "login", "credentials">>,
    <<"Email", "not", "confirmed">>,
    <<>> }

\* String.prototype.includes
Includes(str, needle) ==
  \E i \in 1..(Len(str) + 1) :
    /\ i + Len(needle) - 1 <= Len(str)
    /\ SubSeq(str, i, i + Len(needle) - 1) = needle

\* message || fallback
OrElse(message, fallback) == IF message = <<>> THEN fallback ELSE message

\* What an external call settles with: a value, a returned error, or a throw.
Outcome(kind, message) == [kind |-> kind, message |-> message]

Ok == Outcome("ok", <<>>)

Thrown == Outcome("throw", <<>>)

\* The failures of signInWithPassword.
Failures == {Outcome("error", m) : m \in ErrorMessages} \cup {Thrown}

\* The failures of auth.signUp: a returned error with a message or with
\* none, or a throw.
SignUpFailures ==
  {Outcome("error", <<"User", "already", "registered">>), Outcome("error", <<>>), Thrown}

\* The failures of auth.signOut: a returned { error }, or a throw whose
\* error has a message or none.
SignOutFailures ==
  {Outcome("error", <<"Session", "not", "found">>),
   Outcome("throw", <<"Failed", "to", "fetch">>),
   Thrown}

\* One call of a facade operation: where it is, what its external calls
\* settled with (in order), the user of the session it confirmed, the toasts
\* and navigations it has made, and the external calls it has issued.
Call(op, pc, settled, uid, toasts, navs, calls) ==
  [op |-> op, pc |-> pc, settled |-> settled, uid |-> uid,
   toasts |-> toasts, navs |-> navs, calls |-> calls]

IdleCall == Call("none", "idle", <<>>, "null", <<>>, <<>>, 0)

\* A step of a call: an external call settled with o, the call emits toast t
\* (if any), navigates to nav (if any) and issues newCalls external calls.
Advance(c, pc, o, t, nav, newCalls) ==
  [c EXCEPT !.pc = pc,
               !.settled = Append(@, o),
               !.toasts = IF t = NoToast THEN @ ELSE Append(@, t),
               !.navs = IF nav = "none" THEN @ ELSE Append(@, nav),
               !.calls = @ + newCalls]

\* SignInErrorToast that compares the message instead of searching it.
SignInErrorToastByEquality(message) ==
  IF message = <<"Invalid", "login", "credentials">>
    THEN Toast("Error signing in",
               <<"The email or password you entered is incorrect. Please try again.">>,
               "destructive")
    ELSE Toast("Error signing in",
               OrElse(message, <<"An error occurred during sign in.">>),
               "destructive")

\* The toast of signIn's `if (error)` branch.
SignInErrorToast(message) ==
  IF Includes(message, <<"Invalid", "login", "credentials">>)
    THEN Toast("Error signing in",
               <<"The email or password you entered is incorrect. Please try again.">>,
               "destructive")
    ELSE Toast("Error signing in",
               OrElse(message, <<"An error occurred during sign in.">>),
               "destructive")

\* The toast of signIn's catch block.
SignInCatchToast ==
  Toast("Error signing in",
        <<"An unexpected error occurred. Please try again later.">>, "destructive")

\* signIn after the profiles query settled: the toast and the navigation.
SignInRoleResult(kind, role) ==
  IF kind = "throw" THEN [toast |-> SignInCatchToast, nav |-> "none"]
  ELSE IF kind = "error"
    THEN [toast |-> Toast("Warning",
                          <<"Unable to determine user role. Redirecting to default dashboard.">>,
                          "default"),
          nav |-> "/dashboard"]
  ELSE [toast |-> Toast("Success!", <<"You have successfully signed in.">>, "default"),
        nav |-> IF role = "admin" THEN "/admin" ELSE "/dashboard"]

\* signIn(email, password) is called.
SignInCall ==
  /\ providerMounted
  /\ ~effectPending
  /\ call.pc \in {"idle", "done"}
  /\ call' = Call("signIn", "awaitCredential", <<>>, "null", <<>>, <<>>, 1)
  /\ UNCHANGED <<providerVars, storeVars, initPc, lookups, events, nextSeq, backendSession,
                 routeVars, effectPending, emitted>>

\* signInWithPassword settles with a session for usr: the backend holds the
\* new session and notifies the listener; signIn goes on to getSession.
SignInAccepted(usr) ==
  /\ ~effectPending
  /\ call.op = "signIn" /\ call.pc = "awaitCredential"
  /\ backendSession' = SessionOf(usr)
  /\ Notify(SessionOf(usr))
  /\ call' = Advance(call, "awaitSession", Ok, NoToast, "none", 1)
  /\ UNCHANGED <<providerVars, storeVars, initPc, lookups, routeVars, effectPending, emitted>>

\* signInWithPassword settles with an error, or throws: signIn returns.
SignInRejected(o) ==
  /\ ~effectPending
  /\ call.op = "signIn" /\ call.pc = "awaitCredential"
  /\ LET t == IF o.kind = "throw" THEN SignInCatchToast ELSE SignInErrorToast(o.message)
     IN call' = Advance(call, "done", o, t, "none", 0)
  /\ UNCHANGED <<providerVars, storeVars, initPc, lookups, events, nextSeq, backendSession,
                 routeVars, effectPending, emitted>>

\* getSession settles: with a user signIn queries the profiles table,
\* without one it returns; a throw goes to the catch block.
SignInSession(kind) ==
  /\ ~effectPending
  /\ call.op = "signIn" /\ call.pc = "awaitSession"
  /\ IF kind = "throw"
       THEN call' = Advance(call, "done", Thrown, SignInCatchToast, "none", 0)
       ELSE IF UserOf(backendSession) # "null"
         THEN call' = [Advance(call, "awaitRole", Ok, NoToast, "none", 1)
                         EXCEPT !.uid = UserOf(backendSession)]
         ELSE call' = Advance(call, "done", Ok, NoToast, "none", 0)
  /\ UNCHANGED <<providerVars, storeVars, initPc, lookups, events, nextSeq, backendSession,
                 routeVars, effectPending, emitted>>

\* The profiles query of signIn settles: signIn notifies, navigates, returns.
SignInRole(kind) ==
  /\ ~effectPending
  /\ call.op = "signIn" /\ call.pc = "awaitRole"
  /\ LET r == SignInRoleResult(kind, ProfileRole(call.uid))
     IN call' = Advance(call, "done", Outcome(kind, <<>>), r.toast, r.nav, 0)
  /\ UNCHANGED <<providerVars, storeVars, initPc, lookups, events, nextSeq, backendSession,
                 routeVars, effectPending, emitted>>

\* The toast of signUp for what auth.signUp settled with.
SignUpResult(o) ==
  IF o.kind = "throw"
    THEN Toast("Error signing up",
               <<"An unexpected error occurred. Please try again later.">>, "destructive")
  ELSE IF o.kind = "error"
    THEN Toast("Error signing up",
               OrElse(o.message, <<"An error occurred during sign up.">>), "destructive")
  ELSE Toast("Account created!",
             <<"You have successfully created an account. Please sign in.">>, "default")

\* signUp(email, password, fullName) is called.
SignUpCall ==
  /\ providerMounted
  /\ ~effectPending
  /\ call.pc \in {"idle", "done"}
  /\ call' = Call("signUp", "awaitSignUp", <<>>, "null", <<>>, <<>>, 1)
  /\ UNCHANGED <<providerVars, storeVars, initPc, lookups, events, nextSeq, backendSession,
                 routeVars, effectPending, emitted>>

\* auth.signUp settles: signUp notifies and returns.
SignUpSettled(o) ==
  /\ ~effectPending
  /\ call.op = "signUp" /\ call.pc = "awaitSignUp"
  /\ call' = Advance(call, "done", o, SignUpResult(o), "none", 0)
  /\ UNCHANGED <<providerVars, storeVars, initPc, lookups, events, nextSeq, backendSession,
                 routeVars, effectPending, emitted>>

\* signOut after auth.signOut settled: the toast and the navigation.  A
\* returned { error } is not read; only a throw reaches the catch block.
SignOutResult(o) ==
  IF o.kind = "throw"
    THEN [toast |-> Toast("Error signing out",
                          OrElse(o.message, <<"An error occurred during sign out.">>),
                          "destructive"),
          nav |-> "none"]
    ELSE [toast |-> Toast("Signed out", <<"You have been successfully signed out.">>,
                          "default"),
          nav |-> "/auth"]

\* signOut() is called.
SignOutCall ==
  /\ providerMounted
  /\ ~effectPending
  /\ call.pc \in {"idle", "done"}
  /\ call' = Call("signOut", "awaitSignOut", <<>>, "null", <<>>, <<>>, 1)
  /\ UNCHANGED <<providerVars, storeVars, initPc, lookups, events, nextSeq, backendSession,
                 routeVars, effectPending, emitted>>

\* SignOutTerminated that also clears the store's fields itself.
SignOutTerminatedClearingStore ==
  /\ ~effectPending
  /\ call.op = "signOut" /\ call.pc = "awaitSignOut"
  /\ backendSession' = NullSession
  /\ Notify(NullSession)
  /\ LET r == SignOutResult(Ok)
     IN call' = Advance(call, "done", Ok, r.toast, r.nav, 0)
  /\ session' = NullSession
  /\ user' = "null"
  /\ userRole' = "null"
  /\ UNCHANGED <<providerVars, loading, initPc, lookups, routeVars, emitted>>
  /\ Commit

\* auth.signOut terminates the session: the backend drops it and notifies
\* the listener.
SignOutTerminated ==
  /\ ~effectPending
  /\ call.op = "signOut" /\ call.pc = "awaitSignOut"
  /\ backendSession' = NullSession
  /\ Notify(NullSession)
  /\ LET r == SignOutResult(Ok)
     IN call' = Advance(call, "done", Ok, r.toast, r.nav, 0)
  /\ UNCHANGED <<providerVars, storeVars, initPc, lookups, routeVars, effectPending, emitted>>

\* auth.signOut fails, with a returned error or a throw: the session stays.
SignOutFailed(o) ==
  /\ ~effectPending
  /\ call.op = "signOut" /\ call.pc = "awaitSignOut"
  /\ LET r == SignOutResult(o)
     IN call' = Advance(call, "done", o, r.toast, r.nav, 0)
  /\ UNCHANGED <<providerVars, storeVars, initPc, lookups, events, nextSeq, backendSession,
                 routeVars, effectPending, emitted>>

(***************************************************************************)
(* Specification                                                           *)
(***************************************************************************)

Init ==
  /\ session = NullSession
  /\ user = "null"
  /\ userRole = "null"
  /\ loading = TRUE
  /\ initPc = "pending"
  /\ lookups = {}
  /\ events = <<>>
  /\ nextSeq = 0
  /\ backendSession \in Sessions
  /\ call = IdleCall
  /\ mounted = FALSE
  /\ requiredRole = "none"
  /\ effectPending = FALSE
  /\ emitted = Emit("init", "none", NoLookup, NoToast, "none")
  /\ providerMounted = TRUE
  /\ listeners = 1

Next ==
  \/ RunGuardEffect
  \/ \E req \in RequiredRoles : MountRoute(req)
  \/ UnmountRoute
  \/ HandleAuthEvent
  \/ InitialSession
  \/ \E l \in lookups, outcome \in {"ok", "error", "throw"} : FetchUserRole(l, outcome)
  \/ \E s \in Sessions : BackendChange(s)
  \/ Teardown
  \/ SignInCall
  \/ \E usr \in Users : SignInAccepted(usr)
  \/ \E o \in Failures : SignInRejected(o)
  \/ \E kind \in {"ok", "throw"} : SignInSession(kind)
  \/ \E kind \in {"ok", "error", "throw"} : SignInRole(kind)
  \/ SignUpCall
  \/ \E o \in SignUpFailures \cup {Ok} : SignUpSettled(o)
  \/ SignOutCall
  \/ SignOutTerminated
  \/ \E o \in SignOutFailures : SignOutFailed(o)

Spec == Init /\ [][Next]_vars

\* The profiles query the initial fetch awaits settles.
InitialLookupSettles ==
  \E l \in lookups, outcome \in {"ok", "error", "throw"} :
    l.src = "initial" /\ FetchUserRole(l, outcome)

\* Scheduling: a scheduled effect runs, and a query in flight settles (the
\* effects scheduled in between are run first each time).
FairSpec == Spec /\ WF_vars(RunGuardEffect) /\ SF_vars(InitialLookupSettles)

(***************************************************************************)
(* Properties                                                              *)
(***************************************************************************)

Roles == {"admin", "user", "null"}

\* C1: the guard never renders its protected children while the loading
\* flag is true or while no session / user is present.
C1_NoChildrenWhileLoadingOrSignedOut ==
  rendered = "children" => (~loading /\ session.present /\ user # "null")

\* The guard shows an admin-only route's children after a session-change
\* notification was handled and its role lookup settled.
C1_Witness ==
  /\ rendered = "children"
  /\ requiredRole = "admin"
  /\ emitted.by = "fetchUserRole"
  /\ emitted.lookup.src = "listener"

\* The four-branch decision procedure of the specification, over the session.
SpecGuard(ld, present, role, req) ==
  IF ld THEN [content |-> "none", nav |-> "none", notice |-> "none"]
  ELSE IF ~present
    THEN [content |-> "none", nav |-> "/auth", notice |-> "Authentication required"]
  ELSE IF req # "none" /\ role # req
    THEN IF req = "admin"
      THEN [content |-> "none", nav |-> "/dashboard", notice |-> "Access restricted"]
      ELSE [content |-> "none", nav |-> "/admin", notice |-> "none"]
  ELSE [content |-> "children", nav |-> "none", notice |-> "none"]

\* What the component does: what it renders of the protected content, and
\* what its effect navigates to and notifies.
GuardOutcome(ld, usr, role, req) ==
  [content |-> IF GuardRender(ld, usr, role, req) = "children" THEN "children" ELSE "none",
   nav |-> GuardEffect(ld, usr, role, req).nav,
   notice |-> GuardEffect(ld, usr, role, req).toast.title]

\* C2: for every loading flag, session, role and requiredRole the guard's
\* outcome (content, navigation target, notice) is that of the four-branch
\* procedure; the user the guard reads is the session's, and what the
\* mounted guard's effect last emitted is the procedure's outcome for the
\* store's state.
C2_GuardFollowsProcedure ==
  /\ \A ld \in BOOLEAN, s \in Sessions, role \in Roles, req \in RequiredRoles :
       GuardOutcome(ld, UserOf(s), role, req) = SpecGuard(ld, s.present, role, req)
  /\ user = UserOf(session)
  /\ (mounted /\ ~effectPending /\ emitted.by = "ProtectedRoute") =>
       LET d == SpecGuard(loading, session.present, userRole, requiredRole)
       IN emitted.nav = d.nav /\ emitted.toast.title = d.notice /\
          (rendered = "children") = (d.content = "children")

\* The guard's effect sent an admin away from a user-only route, silently.
C2_Witness ==
  /\ mounted /\ ~effectPending /\ emitted.by = "ProtectedRoute"
  /\ session.present /\ userRole = "admin" /\ requiredRole = "user"
  /\ emitted.nav = "/admin" /\ emitted.toast = NoToast

\* C3: whenever the external session termination of signOut fails, by a
\* returned error or by a throw, signOut does not navigate to /auth.
C3_FailedSignOutDoesNotNavigate ==
  (call.op = "signOut" /\ call.pc = "done" /\ call.settled[1].kind \in {"error", "throw"})
    => call.navs = <<>>

\* C4: a signed-in user whose profile role is admin is never denied by the
\* guard: its effect never emits the "Access restricted" notice nor sends
\* that user from an admin-only route to /dashboard.  Stated for the window
\* the claim names: the session is set, loading is false and the role lookup
\* started for that user has not settled yet.
C4_AdminNeverDenied ==
  (/\ mounted /\ ~effectPending /\ emitted.by = "ProtectedRoute"
   /\ ~loading /\ session.present /\ user # "null" /\ ProfileRole(user) = "admin"
   /\ \E l \in lookups : l.uid = user /\ l.src = "listener")
    => (emitted.toast.title # "Access restricted" /\ emitted.nav # "/dashboard")

\* C5: every signIn call whose credential check succeeded ends with exactly
\* one navigation, to /admin if the fetched role is admin and to /dashboard
\* otherwise; when the role lookup failed the target is /dashboard and the
\* only notice is the "Warning".
C5_AcceptedSignInNavigatesOnce ==
  (call.op = "signIn" /\ call.pc = "done" /\ call.settled[1].kind = "ok")
    => /\ Len(call.navs) = 1
       /\ Len(call.settled) = 3
       /\ IF call.settled[3].kind = "ok"
            THEN call.navs[1] = (IF ProfileRole(call.uid) = "admin" THEN "/admin"
                                                                     ELSE "/dashboard")
            ELSE /\ call.navs[1] = "/dashboard"
                 /\ Len(call.toasts) = 1
                 /\ call.toasts[1].title = "Warning"
                 /\ call.toasts[1].variant # "destructive"

InvalidCredentialsNotice ==
  Toast("Error signing in",
        <<"The email or password you entered is incorrect. Please try again.">>,
        "destructive")

GenericNotice(message) ==
  Toast("Error signing in",
        IF message = <<>> THEN <<"An error occurred during sign in.">> ELSE message,
        "destructive")

\* C6: when the credential check of signIn is rejected with an error, signIn
\* emits exactly one destructive notice, navigates nowhere and issues no
\* further backend call; the notice is the InvalidCredentials one if and only
\* if the message contains "Invalid login credentials", and otherwise the
\* Generic one carrying the backend's message.
C6_RejectedSignInNotifiesOnce ==
  (call.op = "signIn" /\ call.pc = "done" /\ call.settled[1].kind = "error")
    => LET message == call.settled[1].message
           contains == \E i \in 1..Len(message) :
                          /\ i + 2 <= Len(message)
                          /\ message[i] = "Invalid"
                          /\ message[i + 1] = "login"
                          /\ message[i + 2] = "credentials"
       IN /\ Len(call.toasts) = 1
          /\ call.toasts[1].variant = "destructive"
          /\ call.navs = <<>>
          /\ call.calls = 1
          /\ Len(call.settled) = 1
          /\ (call.toasts[1] = InvalidCredentialsNotice) = contains
          /\ ~contains => call.toasts[1] = GenericNotice(message)

\* signIn returned after a rejection whose message contains the phrase
\* inside a longer text.
C6_Witness ==
  /\ call.op = "signIn" /\ call.pc = "done"
  /\ call.settled = <<Outcome("error", <<"AuthApiError:", "Invalid", "login", "credentials">>)>>
  /\ call.toasts = <<InvalidCredentialsNotice>>

\* C7: no step of signIn, signUp or signOut writes session, user, role or
\* loading; those fields change only in the listener, the initial session
\* fetch and the role-lookup completions.
C7_FacadeNeverWritesStore ==
  [][ /\ (call' # call) => UNCHANGED storeVars
      /\ (storeVars' # storeVars) =>
           /\ call' = call
           /\ emitted'.by \in {"onAuthStateChange", "getSession", "fetchUserRole"}
    ]_vars

\* signOut returned after the backend terminated the session, and the store
\* still holds the session: the notification is not yet handled.
C7_Witness ==
  /\ call.op = "signOut" /\ call.pc = "done" /\ call.settled = <<Ok>>
  /\ ~backendSession.present
  /\ session.present /\ user # "null" /\ userRole # "null"

\* C8: when a role lookup of the store fails (returned error, no row, or a
\* throw), the role becomes null, session and user stay as they are, the
\* step emits no notice and no navigation and touches no facade call, and
\* the initial fetch that awaited the lookup resumes and clears loading.
C8_FailedLookupDegradesRoleOnly ==
  [][ \A l \in lookups \ lookups' :
        emitted'.outcome \in {"error", "throw"} =>
          /\ userRole' = "null"
          /\ session' = session /\ user' = user
          /\ emitted'.toast = NoToast /\ emitted'.nav = "none"
          /\ call' = call
          /\ l.src = "initial" => (initPc' = "done" /\ ~loading')
          /\ l.src # "initial" => (initPc' = initPc /\ loading' = loading)
    ]_vars

\* A lookup started by the listener failed for a user who had the admin
\* role: the user is still signed in and the role is null.
C8_Witness ==
  /\ emitted.by = "fetchUserRole" /\ emitted.outcome = "throw"
  /\ emitted.lookup.src = "listener"
  /\ session.present /\ user = "alice" /\ userRole = "null"

\* C9: loading is true until the initial session fetch resolves; once it
\* has resolved, loading eventually becomes false; and once false it is
\* never true again.
C9_LoadingUntilInitialFetch ==
  /\ [](initPc = "pending" => loading)
  /\ (initPc # "pending") ~> ~loading
  /\ [][~loading => ~loading']_vars

\* Loading is false with the initial fetch done, after a sign-in and a
\* sign-out whose notifications were both handled.
C9_Witness ==
  /\ ~loading /\ initPc = "done"
  /\ emitted.by = "onAuthStateChange"
  /\ call.op = "signOut" /\ call.pc = "done" /\ call.settled = <<Ok>>
  /\ nextSeq = 2 /\ events = <<>> /\ ~session.present

\* C10: role lookups are neither cancelled nor sequence-guarded: a lookup
\* leaves the set of lookups in flight only by settling, and when it settles
\* its result is written to the role field whatever the current user is and
\* whichever lookups settled before it.
C10_LookupsAlwaysWrite ==
  [][ \A l \in lookups \ lookups' :
        /\ lookups' = lookups \ {l}
        /\ emitted'.by = "fetchUserRole" /\ emitted'.lookup = l
        /\ userRole' = (IF emitted'.outcome = "ok" THEN ProfileRole(l.uid) ELSE "null")
    ]_vars

\* The lookup started by an earlier notification settled after the lookup of
\* the latest one, and the role is the earlier identity's, not the user's.
C10_Witness ==
  /\ emitted.by = "fetchUserRole" /\ emitted.outcome = "ok"
  /\ emitted.lookup.src = "listener" /\ emitted.lookup.seq < nextSeq
  /\ lookups = {} /\ events = <<>> /\ initPc = "done"
  /\ user # "null" /\ emitted.lookup.uid # user
  /\ userRole = ProfileRole(emitted.lookup.uid)
  /\ userRole # ProfileRole(user)

\* C12: in every state in which the session is absent, the role is null: no
\* completion of a lookup started for an earlier session leaves the store
\* with a role and no session.
C12_NoRoleWithoutSession ==
  (~session.present /\ user = "null") => userRole = "null"

\* C13: the guard navigates to /admin only when the store's role is admin; a
\* signed-in user whose role is null or user is never sent to the admin area,
\* whatever the requiredRole.
C13_OnlyAdminsSentToAdminArea ==
  (mounted /\ ~effectPending /\ emitted.by = "ProtectedRoute" /\ emitted.nav = "/admin")
    => userRole = "admin"

\* C11: the store has exactly one callback registered while the provider is
\* mounted and none after teardown; teardown is possible in every state of
\* the mounted provider, whatever the session, the role, the loading flag and
\* the fetches in flight; after teardown no notification is pending for the
\* handler, the handler cannot run, and a notification emitted then reaches
\* nobody and changes neither session, user nor role.
C11_ListenerScopedToProvider ==
  /\ [](listeners = (IF providerMounted THEN 1 ELSE 0))
  /\ [](providerMounted => ENABLED Teardown)
  /\ [](~providerMounted => (events = <<>> /\ ~ENABLED HandleAuthEvent))
  /\ [][(~providerMounted /\ nextSeq' # nextSeq) =>
          UNCHANGED <<events, session, user, userRole, lookups>>]_vars

\* The provider was torn down while its initial fetch was in flight, every
\* notification of the run was emitted afterwards, the backend holds a
\* session, and the store is as it started.
C11_Witness ==
  /\ ~providerMounted /\ listeners = 0
  /\ initPc = "pending" /\ emitted.by = "init"
  /\ nextSeq = MaxEvents /\ events = <<>>
  /\ backendSession.present /\ ~session.present /\ user = "null" /\ userRole = "null"

====
